---- MODULE Spec2Model ----
(***************************************************************************)
(* Model of yt_summarizer-GROQ-llama-3.1-8b-instant.py: the session loop   *)
(* main(), the identifier extractor, the storage writer and the chat       *)
(* client.  Strings are sequences of one-character strings (or of opaque   *)
(* tokens where the characters do not matter), so that strip(), lower(),   *)
(* the regular expression and the f-string formatting are computed.        *)
(***************************************************************************)
EXTENDS Integers, Sequences, FiniteSets, TLC

\* ------------------------------------------------------------------ bounds
MaxTurns == 2
MaxUrlLen == 4

\* --------------------------------------------------------------- constants
\* Python's None, as a value no string of characters equals.
None == <<"None">>
\* A local that has not been assigned yet.
Unset == <<"Unset">>

DEFAULT_PROMPT == <<"Provide a 3 paragraph summary of the following video transcript with styled markdown:">>
MODEL == <<"llama-3.1-8b-instant">>

\* ---------------------------------------------------------- string helpers
\* The characters str.strip() removes that the modelled inputs can hold.
Whitespace == {" ", "\t", "\n"}

RECURSIVE LStrip(_)
LStrip(s) == IF s # <<>> /\ Head(s) \in Whitespace THEN LStrip(Tail(s)) ELSE s

RECURSIVE RStrip(_)
RStrip(s) == IF s # <<>> /\ s[Len(s)] \in Whitespace THEN RStrip(SubSeq(s, 1, Len(s) - 1)) ELSE s

\* str.strip()
Strip(s) == RStrip(LStrip(s))

\* str.lower() on one character (the upper-case letters the inputs can hold).
LowerChar(c) ==
  CASE c = "E" -> "e" [] c = "X" -> "x" [] c = "I" -> "i" [] c = "T" -> "t"
    [] c = "Q" -> "q" [] c = "U" -> "u" [] c = "H" -> "h" [] OTHER -> c

\* str.lower()
Lower(s) == [i \in 1..Len(s) |-> LowerChar(s[i])]

\* ' '.join(parts)
RECURSIVE Join(_)
Join(parts) ==
  IF parts = <<>> THEN <<>>
  ELSE IF Len(parts) = 1 THEN Head(parts)
  ELSE Head(parts) \o <<" ">> \o Join(Tail(parts))

\* ------------------------------------------------------ extract_video_id
\* re.search(r'v=([^&]+)', s) matches at position i.
MatchAt(s, i) ==
  /\ i + 2 <= Len(s)
  /\ s[i] = "v"
  /\ s[i + 1] = "="
  /\ s[i + 2] # "&"

\* The greedy group [^&]+ that starts at position b ends at GroupEnd(s, b).
GroupEnd(s, b) ==
  CHOOSE e \in b..Len(s) :
    /\ \A k \in b..e : s[k] # "&"
    /\ (e = Len(s) \/ s[e + 1] = "&")

extract_video_id(youtube_url) ==
  IF \E i \in 1..Len(youtube_url) : MatchAt(youtube_url, i)
  THEN LET i == CHOOSE j \in 1..Len(youtube_url) :
                  /\ MatchAt(youtube_url, j)
                  /\ \A k \in 1..(j - 1) : ~MatchAt(youtube_url, k)
       IN  SubSeq(youtube_url, i + 2, GroupEnd(youtube_url, i + 2))
  ELSE None

\* -------------------------------------------------------- storage writer
\* The file system is the set of directories that exist and the content of
\* every file that exists.  A failed write is modelled at the granularity
\* of the system call that fails; no partial content is written.
EmptyFS == [dirs |-> {}, files |-> <<>>]

\* files with the content of path p set to c
Put(files, p, c) == [q \in (DOMAIN files) \cup {p} |-> IF q = p THEN c ELSE files[q]]

create_directory(fs, video_id) ==
  IF video_id \notin fs.dirs THEN [fs EXCEPT !.dirs = @ \cup {video_id}] ELSE fs

\* os.path.join(video_id, f"{video_id}_transcript.txt")
TranscriptPath(video_id) == video_id \o <<"/">> \o video_id \o <<"_transcript.txt">>

\* os.path.join(video_id, f"{video_id}.md")
MarkdownPath(video_id) == video_id \o <<"/">> \o video_id \o <<".md">>

save_transcript_as_text(fs, transcript_text, video_id) ==
  LET d == create_directory(fs, video_id)
  IN  [d EXCEPT !.files = Put(@, TranscriptPath(video_id), transcript_text)]

\* f"**User:** {user_input}\n\n**Assistant:** {summary}\n\n"
Block(user_input, summary) ==
  <<"**User:** ">> \o user_input \o <<"\n\n**Assistant:** ">> \o summary \o <<"\n\n">>

\* Content of path p, empty when the file does not exist (what mode "a" starts from).
ContentOf(fs, p) == IF p \in DOMAIN fs.files THEN fs.files[p] ELSE <<>>

save_summary_as_markdown_truncating(fs, user_input, summary, video_id) ==
  LET d == create_directory(fs, video_id)
  IN  [d EXCEPT !.files = Put(@, MarkdownPath(video_id), Block(user_input, summary))]

save_summary_as_markdown(fs, user_input, summary, video_id) ==
  LET d == create_directory(fs, video_id)
      p == MarkdownPath(video_id)
  IN  [d EXCEPT !.files = Put(@, p, ContentOf(d, p) \o Block(user_input, summary))]

\* Where a storage operation can raise OSError.
FailPoints == {"makedirs", "open", "write"}

\* The file system left behind when save_transcript_as_text raises at `point`:
\* makedirs raised (nothing changed), open(.., "w") raised (the directory
\* exists), or the write raised (open has truncated the file).
save_transcript_as_text_failing(fs, video_id, point) ==
  LET d == create_directory(fs, video_id)
  IN  CASE point = "makedirs" -> fs
        [] point = "open"     -> d
        [] point = "write"    -> [d EXCEPT !.files = Put(@, TranscriptPath(video_id), <<>>)]

\* The file system left behind when save_summary_as_markdown raises at `point`;
\* open(.., "a") creates the file when it is missing and keeps its content.
save_summary_as_markdown_failing(fs, video_id, point) ==
  LET d == create_directory(fs, video_id)
      p == MarkdownPath(video_id)
  IN  CASE point = "makedirs" -> fs
        [] point = "open"     -> d
        [] point = "write"    -> [d EXCEPT !.files = Put(@, p, ContentOf(d, p))]

\* makedirs is only called when the directory is missing.
CanFailAt(fs, video_id, point) == point = "makedirs" => video_id \notin fs.dirs

\* ------------------------------------------------------------ chat client
\* The single message of the request: f"{prompt}\n\n{transcript_text}".
MessageContent_no_default(transcript_text, user_prompt) ==
  user_prompt \o <<"\n\n">> \o transcript_text

MessageContent(transcript_text, user_prompt) ==
  (IF user_prompt # None /\ user_prompt # <<>> THEN user_prompt ELSE DEFAULT_PROMPT)
    \o <<"\n\n">> \o transcript_text

\* The JSON body of the POST.
RequestData(transcript_text, user_prompt) ==
  [messages |-> << [role |-> "user", content |-> MessageContent(transcript_text, user_prompt)] >>,
   model    |-> MODEL]

\* response.raise_for_status(): raises for 4xx and 5xx.
raise_for_status_never(response) == FALSE

raise_for_status(response) == response.status >= 400 /\ response.status < 600

\* response.json()["choices"][0]["message"]["content"].strip() raises when the
\* body is not JSON, has no "choices", has an empty list of choices or a null
\* content.
BodyMalformed(response) == response.body # "content"

\* get_summary raises for this response (requests.post itself raised when the
\* status is 0: no response was received).
get_summary_raises(response) ==
  \/ response.status = 0
  \/ raise_for_status(response)
  \/ BodyMalformed(response)

\* The exception get_summary raises for this response.
SummaryError(response) ==
  IF response.status = 0 THEN <<"ConnectionError">>
  ELSE IF raise_for_status(response) THEN <<"HTTPError">>
  ELSE <<response.body>>

\* The value get_summary returns for a well-formed response.
get_summary_value(response) == Strip(response.content)

\* ------------------------------------------------------------------ inputs
\* URLs typed at the first prompt.
URLs ==
  { <<"?", "v", "=", "a">>,
    <<"?", "v", "=", "b", "&", "t", "=", "1">>,
    <<"?", "a", "v", "=", "b", "&", "v", "=", "a">>,
    <<"?", "x", "=", "1">>,
    <<"?", "v", "=">> }

\* Results of YouTubeTranscriptApi.get_transcript: the text of each segment.
SegmentLists == { << <<"Hello">>, <<"world">> >>, << <<"Hi">> >> }

\* Exceptions get_transcript raises.
FetchErrors == { <<"TranscriptsDisabled">>, <<"ConnectionError">>, <<"KeyError">> }

\* Lines typed at the "> " prompt that end the loop, and lines that do not.
ExitLines ==
  { <<"e", "x", "i", "t">>, <<"E", "X", "I", "T">>, <<" ", "Q", "u", "i", "t", " ">> }

PromptLines ==
  { <<>>, <<" ">>, <<" ", "h", "i", " ">>, <<"e", "x", "i", "t", "s">> }

Lines == ExitLines \cup PromptLines

\* Responses of the chat endpoint; status 0 stands for requests.post raising.
Statuses == {200, 500}
MalformedBodies == {"NotJson", "NoChoices", "EmptyChoices", "NullContent"}
Contents == { <<"ok">>, <<" ", "ok", "\n">> }

Responses ==
  { [status |-> 0, body |-> "NotJson", content |-> <<>>] }
    \cup { [status |-> st, body |-> b, content |-> <<>>] : st \in Statuses, b \in MalformedBodies }
    \cup { [status |-> st, body |-> "content", content |-> c] : st \in Statuses, c \in Contents }

\* File systems the run can start in: nothing there, or what an earlier run for
\* the identifier "a" left behind.
PriorRunFS ==
  save_summary_as_markdown(
    save_transcript_as_text(EmptyFS, <<"old">>, <<"a">>), <<"h", "i">>, <<"old reply">>, <<"a">>)

InitialFileSystems == { EmptyFS, PriorRunFS }

\* ------------------------------------------------------------------- state
VARIABLES
  pc,               \* position of main(): AwaitURL, FetchTranscript, Interactive, Terminated
  session,          \* the module-level dict `session`
  video_id,         \* main's local video_id
  transcript_text,  \* main's local transcript_text
  user_input,       \* main's local user_input
  fs,               \* the file system
  console,          \* what has been written to standard output, in order
  requests,         \* the bodies POSTed to the chat endpoint, in order
  unhandled,        \* an exception has left main()
  fs0,              \* history: the file system at the start of the run
  trace,            \* history: the external operations of the run, in order
  turns,            \* history: line read, input and reply of every turn whose chat call and append succeeded
  storage_error,    \* history: the storage operation that raised, if any
  line_read,        \* history: the last line input("> ") returned, before strip()
  calls             \* history: line read and response received of every chat call, in order

vars == << pc, session, video_id, transcript_text, user_input, fs, console, requests,
           unhandled, fs0, trace, turns, storage_error, line_read, calls >>

\* One print() call.
Line(text, arg) == [text |-> text, arg |-> arg]

\* The prompt input() writes.
Prompt(text) == Line(text, <<>>)

Init ==
  /\ pc = "AwaitURL"
  /\ session = <<>>
  /\ video_id = Unset
  /\ transcript_text = Unset
  /\ user_input = Unset
  /\ fs \in InitialFileSystems
  /\ console = <<>>
  /\ requests = <<>>
  /\ unhandled = FALSE
  /\ fs0 = fs
  /\ trace = <<>>
  /\ turns = <<>>
  /\ storage_error = None
  /\ line_read = Unset
  /\ calls = <<>>

\* ----------------------------------------------------------------- actions
\* main, lines 112-123: read the URL (or resume), extract the identifier.
ReadURL_retrying ==
  /\ pc = "AwaitURL"
  /\ \E u \in URLs :
       LET id == extract_video_id(u)
       IN  /\ session' = [youtube_url |-> u]
           /\ video_id' = id
           /\ console' = console \o << Prompt("Enter YouTube URL: ") >>
           /\ trace' = trace \o << "input_url" >>
           /\ pc' = IF id = None THEN "AwaitURL" ELSE "FetchTranscript"
  /\ UNCHANGED << transcript_text, user_input, fs, requests, unhandled, fs0, turns, storage_error, line_read, calls >>

ReadURL ==
  /\ pc = "AwaitURL"
  /\ \E u \in URLs :
       LET resumed == "youtube_url" \in DOMAIN session
           youtube_url == IF resumed THEN session.youtube_url ELSE u
           id == extract_video_id(youtube_url)
           shown == IF resumed
                    THEN << Line("Resuming session for YouTube URL: ", youtube_url) >>
                    ELSE << Prompt("Enter YouTube URL: ") >>
       IN  /\ session' = [youtube_url |-> youtube_url]
           /\ video_id' = id
           /\ trace' = IF resumed THEN trace ELSE trace \o << "input_url" >>
           /\ IF id = None
              THEN /\ console' = console \o shown \o << Line("Invalid YouTube URL", <<>>) >>
                   /\ pc' = "Terminated"
              ELSE /\ console' = console \o shown
                   /\ pc' = "FetchTranscript"
  /\ UNCHANGED << transcript_text, user_input, fs, requests, unhandled, fs0, turns, storage_error, line_read, calls >>

\* main, lines 126-129: the transcript is fetched and saved.
FetchOK_without_save ==
  /\ pc = "FetchTranscript"
  /\ \E segs \in SegmentLists :
       /\ transcript_text' = Join(segs)
       /\ trace' = trace \o << "transcript_call", "transcript_ok" >>
       /\ pc' = "Interactive"
  /\ UNCHANGED << session, video_id, user_input, fs, console, requests, unhandled, fs0, turns, storage_error, line_read, calls >>

FetchOK ==
  /\ pc = "FetchTranscript"
  /\ \E segs \in SegmentLists :
       /\ transcript_text' = Join(segs)
       /\ fs' = save_transcript_as_text(fs, Join(segs), video_id)
       /\ trace' = trace \o << "transcript_call", "transcript_ok", "transcript_write" >>
       /\ console' = console \o
            << Line("Transcript saved to ", video_id \o <<"/">> \o video_id \o <<"_transcript.txt">>) >>
       /\ pc' = "Interactive"
  /\ UNCHANGED << session, video_id, user_input, requests, unhandled, fs0, turns, storage_error, line_read, calls >>

\* main, lines 126-127 and 130-132: get_transcript raises.
FetchFail_after_mkdir ==
  /\ pc = "FetchTranscript"
  /\ \E e \in FetchErrors :
       /\ trace' = trace \o << "transcript_call", "transcript_raised" >>
       /\ fs' = create_directory(fs, video_id)
       /\ console' = console \o << Line("Error fetching the transcript: ", e) >>
       /\ pc' = "Terminated"
  /\ UNCHANGED << session, video_id, transcript_text, user_input, requests, unhandled, fs0, turns, storage_error, line_read, calls >>

FetchFail ==
  /\ pc = "FetchTranscript"
  /\ \E e \in FetchErrors :
       /\ trace' = trace \o << "transcript_call", "transcript_raised" >>
       /\ console' = console \o << Line("Error fetching the transcript: ", e) >>
       /\ pc' = "Terminated"
  /\ UNCHANGED << session, video_id, transcript_text, user_input, fs, requests, unhandled, fs0, turns, storage_error, line_read, calls >>

\* main, lines 126-128 and 130-132: the transcript is fetched,
\* save_transcript_as_text raises OSError; the handler of line 130 catches it.
SaveTranscriptFail_unhandled ==
  /\ pc = "FetchTranscript"
  /\ \E segs \in SegmentLists, point \in FailPoints :
       /\ CanFailAt(fs, video_id, point)
       /\ transcript_text' = Join(segs)
       /\ fs' = save_transcript_as_text_failing(fs, video_id, point)
       /\ trace' = trace \o << "transcript_call", "transcript_ok", "transcript_write_failed" >>
       /\ storage_error' = <<"transcript", point>>
       /\ unhandled' = TRUE
       /\ pc' = "Terminated"
  /\ UNCHANGED << session, video_id, user_input, console, requests, fs0, turns, line_read, calls >>

SaveTranscriptFail ==
  /\ pc = "FetchTranscript"
  /\ \E segs \in SegmentLists, point \in FailPoints :
       /\ CanFailAt(fs, video_id, point)
       /\ transcript_text' = Join(segs)
       /\ fs' = save_transcript_as_text_failing(fs, video_id, point)
       /\ trace' = trace \o << "transcript_call", "transcript_ok", "transcript_write_failed" >>
       /\ storage_error' = <<"transcript", point>>
       /\ console' = console \o << Line("Error fetching the transcript: ", <<"OSError">>) >>
       /\ pc' = "Terminated"
  /\ UNCHANGED << session, video_id, user_input, requests, unhandled, fs0, turns, line_read, calls >>

\* main, line 138: user_input.lower() in ["exit", "quit"]
IsExitCommand_case_sensitive(input) ==
  input \in { <<"e", "x", "i", "t">>, <<"q", "u", "i", "t">> }

IsExitCommand(input) ==
  Lower(input) \in { <<"e", "x", "i", "t">>, <<"q", "u", "i", "t">> }

\* main, lines 136-140: an exit command is read.
ReadExit ==
  /\ pc = "Interactive"
  /\ \E line \in Lines :
       /\ IsExitCommand(Strip(line))
       /\ line_read' = line
       /\ user_input' = Strip(line)
       /\ console' = console \o << Prompt("> "), Line("Goodbye!", <<>>) >>
       /\ trace' = trace \o << "input_line" >>
       /\ pc' = "Terminated"
  /\ UNCHANGED << session, video_id, transcript_text, fs, requests, unhandled, fs0, turns, storage_error, calls >>

\* main, lines 136-149: a turn whose chat call and append succeed.
TurnOK ==
  /\ pc = "Interactive"
  /\ Len(requests) < MaxTurns
  /\ \E line \in Lines, response \in Responses :
       LET input == Strip(line)
           summary == get_summary_value(response)
       IN  /\ ~IsExitCommand(input)
           /\ ~get_summary_raises(response)
           /\ line_read' = line
           /\ user_input' = input
           /\ requests' = Append(requests, RequestData(transcript_text, input))
           /\ calls' = Append(calls, [line |-> line, response |-> response])
           /\ fs' = save_summary_as_markdown(fs, input, summary, video_id)
           /\ console' = console \o
                << Prompt("> "),
                   Line("**User:** ", input),
                   Line("**Assistant:** ", summary),
                   Line("Summary saved to ", video_id \o <<"/">> \o video_id \o <<".md">>) >>
           /\ trace' = trace \o << "input_line", "chat_call", "md_append" >>
           /\ turns' = Append(turns, [line |-> line, input |-> input, reply |-> summary])
  /\ UNCHANGED << pc, session, video_id, transcript_text, unhandled, fs0, storage_error >>

\* main, lines 136-144 and 150-152: get_summary raises.
TurnChatFail_silent ==
  /\ pc = "Interactive"
  /\ Len(requests) < MaxTurns
  /\ \E line \in Lines, response \in Responses :
       LET input == Strip(line)
       IN  /\ ~IsExitCommand(input)
           /\ get_summary_raises(response)
           /\ line_read' = line
           /\ user_input' = input
           /\ requests' = Append(requests, RequestData(transcript_text, input))
           /\ calls' = Append(calls, [line |-> line, response |-> response])
           /\ console' = console \o << Prompt("> ") >>
           /\ trace' = trace \o << "input_line", "chat_call" >>
           /\ pc' = "Terminated"
  /\ UNCHANGED << session, video_id, transcript_text, fs, unhandled, fs0, turns, storage_error >>

TurnChatFail ==
  /\ pc = "Interactive"
  /\ Len(requests) < MaxTurns
  /\ \E line \in Lines, response \in Responses :
       LET input == Strip(line)
       IN  /\ ~IsExitCommand(input)
           /\ get_summary_raises(response)
           /\ line_read' = line
           /\ user_input' = input
           /\ requests' = Append(requests, RequestData(transcript_text, input))
           /\ calls' = Append(calls, [line |-> line, response |-> response])
           /\ console' = console \o
                << Prompt("> "), Line("Error generating summary: ", SummaryError(response)) >>
           /\ trace' = trace \o << "input_line", "chat_call" >>
           /\ pc' = "Terminated"
  /\ UNCHANGED << session, video_id, transcript_text, fs, unhandled, fs0, turns, storage_error >>

\* main, lines 136-148 and 150-152: the chat call succeeds,
\* save_summary_as_markdown raises OSError; the handler of line 150 catches it.
TurnSaveFail ==
  /\ pc = "Interactive"
  /\ Len(requests) < MaxTurns
  /\ \E line \in Lines, response \in Responses, point \in FailPoints :
       LET input == Strip(line)
           summary == get_summary_value(response)
       IN  /\ ~IsExitCommand(input)
           /\ ~get_summary_raises(response)
           /\ CanFailAt(fs, video_id, point)
           /\ line_read' = line
           /\ user_input' = input
           /\ requests' = Append(requests, RequestData(transcript_text, input))
           /\ calls' = Append(calls, [line |-> line, response |-> response])
           /\ fs' = save_summary_as_markdown_failing(fs, video_id, point)
           /\ console' = console \o
                << Prompt("> "),
                   Line("**User:** ", input),
                   Line("**Assistant:** ", summary),
                   Line("Error generating summary: ", <<"OSError">>) >>
           /\ trace' = trace \o << "input_line", "chat_call", "md_append_failed" >>
           /\ storage_error' = <<"markdown", point>>
           /\ pc' = "Terminated"
  /\ UNCHANGED << session, video_id, transcript_text, unhandled, fs0, turns >>

\* main, lines 113 and 136: input() raises EOFError outside of any try block.
InputEOF ==
  /\ pc \in {"AwaitURL", "Interactive"}
  /\ console' = console \o << Prompt(IF pc = "AwaitURL" THEN "Enter YouTube URL: " ELSE "> ") >>
  /\ trace' = trace \o << "input_eof" >>
  /\ unhandled' = TRUE
  /\ pc' = "Terminated"
  /\ UNCHANGED << session, video_id, transcript_text, user_input, fs, requests, fs0, turns,
                  storage_error, line_read, calls >>

Next ==
  \/ ReadURL
  \/ FetchOK
  \/ FetchFail
  \/ SaveTranscriptFail
  \/ ReadExit
  \/ TurnOK
  \/ TurnChatFail
  \/ TurnSaveFail
  \/ InputEOF

Spec == Init /\ [][Next]_vars

TypeOK ==
  /\ pc \in {"AwaitURL", "FetchTranscript", "Interactive", "Terminated"}
  /\ unhandled \in BOOLEAN
  /\ Len(requests) <= MaxTurns
  /\ Len(turns) <= Len(requests)

\* ------------------------------------- extract_video_id on bounded strings
Alphabet == {"v", "=", "&", "a", "?"}

BoundedURLs == UNION { [1..n -> Alphabet] : n \in 0..MaxUrlLen }

InitExtract ==
  /\ pc = "ExtractOnly"
  /\ session \in { [youtube_url |-> u] : u \in BoundedURLs }
  /\ video_id = Unset
  /\ transcript_text = Unset
  /\ user_input = Unset
  /\ fs = EmptyFS
  /\ console = <<>>
  /\ requests = <<>>
  /\ unhandled = FALSE
  /\ fs0 = fs
  /\ trace = <<>>
  /\ turns = <<>>
  /\ storage_error = None
  /\ line_read = Unset
  /\ calls = <<>>

\* main, line 120: video_id = extract_video_id(youtube_url)
ApplyExtract ==
  /\ pc = "ExtractOnly"
  /\ video_id' = extract_video_id(session.youtube_url)
  /\ pc' = "Extracted"
  /\ UNCHANGED << session, transcript_text, user_input, fs, console, requests, unhandled, fs0,
                  trace, turns, storage_error, line_read, calls >>

NextExtract == ApplyExtract

SpecExtract == InitExtract /\ [][NextExtract]_vars

\* ================================================================== claims
Last(seq) == seq[Len(seq)]

Count(seq, e) == Cardinality({ i \in DOMAIN seq : seq[i] = e })

\* The step reads a line at the "> " prompt.
ReadsLine == Len(trace') > Len(trace) /\ trace'[Len(trace) + 1] = "input_line"

\* The step makes a chat call.
MakesChatCall == Len(calls') = Len(calls) + 1

\* A response that is a failure of the chat service: no response, a status
\* outside 2xx, or a body without choices[0].message.content.
ChatFailure(response) ==
  \/ response.status < 200
  \/ response.status > 299
  \/ response.body # "content"

\* The block the specification gives for one turn.
SpecBlock(input, reply) ==
  <<"**User:** ">> \o input \o <<"\n\n**Assistant:** ">> \o reply \o <<"\n\n">>

\* The blocks of the turns ts, in order, with the lines as they were read.
RECURSIVE BlocksOfLines(_)
BlocksOfLines(ts) ==
  IF ts = <<>> THEN <<>>
  ELSE SpecBlock(Head(ts).line, Head(ts).reply) \o BlocksOfLines(Tail(ts))

\* The blocks of the turns ts, in order, with the lines stripped.
RECURSIVE BlocksOfInputs(_)
BlocksOfInputs(ts) ==
  IF ts = <<>> THEN <<>>
  ELSE SpecBlock(Strip(Head(ts).line), Head(ts).reply) \o BlocksOfInputs(Tail(ts))

HasIdentifier == video_id # Unset /\ video_id # None

\* s is a prefix of t
IsPrefix(s, t) == Len(s) <= Len(t) /\ SubSeq(t, 1, Len(s)) = s

\* C1 (as stated): the conversation file holds exactly one block per
\* successful turn of the run, the k-th block carrying the k-th line read and
\* its reply.
C1_Original ==
  HasIdentifier => ContentOf(fs, MarkdownPath(video_id)) = BlocksOfLines(turns)

\* C1 (amended): the conversation file holds the content it had when the run
\* started, followed by exactly one block per successful turn of the run in
\* the order of the turns, the k-th block carrying the k-th line read with its
\* surrounding whitespace stripped and the k-th reply; a step never removes
\* or rewrites what the file already holds.
C1_AppendOnly ==
  /\ [](HasIdentifier =>
          ContentOf(fs, MarkdownPath(video_id))
            = ContentOf(fs0, MarkdownPath(video_id)) \o BlocksOfInputs(turns))
  /\ [][HasIdentifier =>
          IsPrefix(ContentOf(fs, MarkdownPath(video_id)), ContentOf(fs', MarkdownPath(video_id)))]_vars

C1_Witness ==
  /\ Len(turns) = 2
  /\ ContentOf(fs0, MarkdownPath(video_id)) # <<>>
  /\ turns[1].line # turns[2].line
  /\ turns[2].line = <<" ", "h", "i", " ">>

\* c is the letter w or its upper case.
SameLetter(c, w) ==
  \/ c = w
  \/ <<c, w>> \in { <<"E", "e">>, <<"X", "x">>, <<"I", "i">>, <<"T", "t">>, <<"Q", "q">>, <<"U", "u">> }

CaseInsensitiveEq(s, w) == Len(s) = Len(w) /\ \A i \in 1..Len(w) : SameLetter(s[i], w[i])

SpecIsExit(line) ==
  \/ CaseInsensitiveEq(line, <<"e", "x", "i", "t">>)
  \/ CaseInsensitiveEq(line, <<"q", "u", "i", "t">>)

\* C2: reading, in Interactive, a line that case-insensitively equals "exit"
\* or "quit" ends the session; that step makes no chat call and leaves the
\* file system as it was.
C2_ExitWithoutChat ==
  [][(pc = "Interactive" /\ ReadsLine /\ SpecIsExit(line_read'))
       => /\ pc' = "Terminated"
          /\ requests' = requests
          /\ calls' = calls
          /\ fs' = fs]_vars

C2_Witness ==
  /\ pc = "Terminated"
  /\ line_read = <<"E", "X", "I", "T">>
  /\ Len(turns) = 1
  /\ Len(requests) = 1

AllBefore(a, b) ==
  \A i, j \in DOMAIN trace : (trace[i] = a /\ trace[j] = b) => i < j

\* C4: whenever the run is in Interactive, the transcript has been written
\* exactly once, before any line was read, any chat call was made and any
\* block was appended, and the transcript file holds the fetched string; no
\* step taken in Interactive writes the transcript file.
C4_TranscriptWrittenOnce ==
  /\ [](pc = "Interactive" =>
          /\ Count(trace, "transcript_write") = 1
          /\ Count(trace, "transcript_write_failed") = 0
          /\ AllBefore("transcript_write", "input_line")
          /\ AllBefore("transcript_write", "chat_call")
          /\ AllBefore("transcript_write", "md_append")
          /\ TranscriptPath(video_id) \in DOMAIN fs.files
          /\ fs.files[TranscriptPath(video_id)] = transcript_text)
  /\ [][pc = "Interactive" =>
          /\ Count(trace', "transcript_write") = Count(trace, "transcript_write")
          /\ ContentOf(fs', TranscriptPath(video_id)) = ContentOf(fs, TranscriptPath(video_id))
          /\ transcript_text' = transcript_text]_vars

C4_Witness ==
  /\ pc = "Interactive"
  /\ Len(turns) = 2
  /\ Count(trace, "transcript_write") = 1
  /\ ContentOf(fs0, TranscriptPath(video_id)) = <<"old">>
  /\ fs.files[TranscriptPath(video_id)] = <<"Hello", " ", "world">>

\* The step is a call of the transcript service that raises.
FetchRaises ==
  /\ Len(trace') = Len(trace) + 2
  /\ trace'[Len(trace) + 1] = "transcript_call"
  /\ trace'[Len(trace) + 2] = "transcript_raised"

\* C5: a step in which the transcript fetch raises ends the run and leaves
\* the file system as it was, with no chat call; nothing happens after
\* Terminated, so Interactive is never entered.
C5_FetchFailureTerminates ==
  [][/\ pc # "Terminated"
     /\ FetchRaises => /\ pc' = "Terminated"
                       /\ fs' = fs
                       /\ fs' = fs0
                       /\ requests' = <<>>
                       /\ Count(trace', "input_line") = 0]_vars

C5_Witness ==
  /\ pc = "Terminated"
  /\ Last(trace) = "transcript_raised"
  /\ video_id = <<"b">>
  /\ fs = EmptyFS

\* C6: when extraction yielded absence, the run is Terminated, having read
\* one URL and printed the error, with no call of the transcript service, no
\* line read, no chat call and the file system as it was at the start.
C6_AbsenceTerminates ==
  video_id = None =>
    /\ pc = "Terminated"
    /\ trace = << "input_url" >>
    /\ console = << Prompt("Enter YouTube URL: "), Line("Invalid YouTube URL", <<>>) >>
    /\ requests = <<>>
    /\ fs = fs0

C6_Witness ==
  /\ video_id = None
  /\ pc = "Terminated"
  /\ session = [youtube_url |-> <<"?", "x", "=", "1">>]
  /\ fs = PriorRunFS

\* ---- C7
\* A parameter named v starts at position i of s.
ParamVAt(s, i) ==
  /\ i + 1 <= Len(s)
  /\ s[i] = "v"
  /\ s[i + 1] = "="
  /\ (i = 1 \/ s[i - 1] \in {"?", "&"})

HasParamV(s) == \E i \in 1..Len(s) : ParamVAt(s, i)

\* The characters after the first "v=" that names a parameter, up to the next
\* "&" or the end of the string.
ParamVValue(s) ==
  LET i == CHOOSE j \in 1..Len(s) : ParamVAt(s, j) /\ \A k \in 1..(j - 1) : ~ParamVAt(s, k)
      n == Cardinality({ e \in (i + 2)..Len(s) : \A k \in (i + 2)..e : s[k] # "&" })
  IN  SubSeq(s, i + 2, i + 1 + n)

\* C7: extract_video_id returns the value of the query parameter named v and
\* absence when the URL has no such parameter; a value it returns is
\* non-empty and contains no "&".  (A parameter v with an empty value leaves
\* the result open between the two halves of the claim.)
C7_ExtractsParamV ==
  pc = "Extracted" =>
    LET u == session.youtube_url
    IN  /\ ~HasParamV(u) => video_id = None
        /\ (HasParamV(u) /\ ParamVValue(u) # <<>>) => video_id = ParamVValue(u)
        /\ video_id # None => (video_id # <<>> /\ \A k \in 1..Len(video_id) : video_id[k] # "&")

\* ---- C8
\* The prompt of a turn as the specification gives it, from the line read.
SpecPromptOfLine(line) == IF line = <<>> THEN DEFAULT_PROMPT ELSE line

\* C8 (as stated): every request carries one message: the default
\* instruction when the line read is empty and the line read otherwise, a
\* blank line, the transcript.
C8_Original ==
  \A k \in DOMAIN requests :
    /\ Len(requests[k].messages) = 1
    /\ requests[k].messages[1].content
         = SpecPromptOfLine(calls[k].line) \o <<"\n\n">> \o transcript_text

\* C8 (amended): every request carries exactly one message whose content is
\* the prompt, a blank line, then the transcript fetched at the start of the
\* run; the prompt is the line read with its surrounding whitespace stripped,
\* or the default instruction when that is empty; the transcript is the one
\* saved before the loop and nothing of earlier turns is included.
C8_RequestContent ==
  \A k \in DOMAIN requests :
    /\ Len(requests[k].messages) = 1
    /\ requests[k].messages[1].role = "user"
    /\ requests[k].messages[1].content
         = SpecPromptOfLine(Strip(calls[k].line)) \o <<"\n\n">> \o fs.files[TranscriptPath(video_id)]

C8_Witness ==
  /\ Len(requests) = 2
  /\ Len(turns) = 2
  /\ calls[1].line = <<" ", "h", "i", " ">>
  /\ calls[2].line = <<" ">>
  /\ requests[2].messages[1].content = DEFAULT_PROMPT \o <<"\n\n", "Hi">>

\* ---- C9
\* C9 (as stated): a storage error leaves main() unhandled.
C9_Original == storage_error # None => unhandled

\* C9 (amended): a storage error is caught by the handler around the failing
\* call: the run ends in Terminated with no unhandled failure, and the last
\* line printed reports a transcript-fetch error when the directory or the
\* transcript file could not be written and a summary-generation error when
\* the conversation file could not be appended to.
C9_StorageErrorCaught ==
  storage_error # None =>
    /\ ~unhandled
    /\ pc = "Terminated"
    /\ Last(console) =
         Line(IF storage_error[1] = "transcript"
              THEN "Error fetching the transcript: "
              ELSE "Error generating summary: ", <<"OSError">>)

C9_Witness ==
  /\ storage_error = <<"transcript", "write">>
  /\ pc = "Terminated"
  /\ fs.files[TranscriptPath(video_id)] = <<>>

\* ---- C10
\* The step makes a chat call that fails.
ChatCallFails == MakesChatCall /\ ChatFailure(Last(calls').response)

\* C10 (as stated): on a chat failure nothing is printed after the prompt of
\* that turn.
C10_Original ==
  [][ChatCallFails => console' = console \o << Prompt("> ") >>]_vars

\* C10 (amended): on a chat failure the session goes to Terminated having
\* printed, after the prompt of that turn, exactly one line, the
\* summary-generation error with the underlying error; neither the exchange
\* nor a goodbye is printed.
C10_ChatFailureReported ==
  [][ChatCallFails =>
       /\ pc' = "Terminated"
       /\ \E e \in { <<"ConnectionError">>, <<"HTTPError">> } \cup { <<b>> : b \in MalformedBodies } :
            console' = console \o << Prompt("> "), Line("Error generating summary: ", e) >>]_vars

C10_Witness ==
  /\ pc = "Terminated"
  /\ calls # <<>>
  /\ Last(calls).response.status = 0
  /\ Last(console) = Line("Error generating summary: ", <<"ConnectionError">>)

====
